---- MODULE Spec2Model ----
(***************************************************************************)
(* Model of vnt's AES-ECB packet cipher (vnt/src/cipher/aes_ecb.rs):       *)
(* AesEcbCipher::encrypt_ipv4 and AesEcbCipher::decrypt_ipv4 acting in     *)
(* place on a NetPacket buffer, together with the collaborators they call: *)
(* the NetPacket length/flag accessors, the AesCbcSecretBody layout view,  *)
(* the Finger keyed fingerprint and the padded ECB block transform.        *)
(*                                                                         *)
(* Bytes are integers 0..255.  A packet is a record of the header fields   *)
(* the cipher reads, its declared length data_len (header included) and    *)
(* `buffer`, the bytes that follow the header up to the buffer's capacity. *)
(***************************************************************************)
EXTENDS Integers, Sequences, FiniteSets, TLC

VARIABLES cipher, pkts, orig, prev, hist, ops

vars == <<cipher, pkts, orig, prev, hist, ops>>

(***************************************************************************)
(* Bounds of the model.                                                    *)
(***************************************************************************)
\* longest original payload of a packet to send
MaxLen == 13
\* most operations recorded on one packet
MaxOps == 3
\* most calls made on each of two packets that share one cipher
MaxSharedOps == 2

(***************************************************************************)
(* Program constants.                                                      *)
(***************************************************************************)
\* length of the tunnel header that precedes the payload
HEAD_LEN == 12
\* AES block size
BLOCK == 16
\* length of the truncated fingerprint stored behind the ciphertext
FINGER_LEN == 12
\* length of the random number appended to the plaintext
RANDOM_LEN == 4

(***************************************************************************)
(* Byte helpers.                                                           *)
(***************************************************************************)
Pow2(k) == CASE k = 0 -> 1 [] k = 1 -> 2 [] k = 2 -> 4 [] k = 3 -> 8
             [] k = 4 -> 16 [] k = 5 -> 32 [] k = 6 -> 64 [] k = 7 -> 128

\* the byte b with bit k inverted
FlipBit(b, k) == IF (b \div Pow2(k)) % 2 = 1 THEN b - Pow2(k) ELSE b + Pow2(k)

\* u32::to_be_bytes
to_be_bytes(v) == << (v \div 16777216) % 256, (v \div 65536) % 256,
                     (v \div 256) % 256, v % 256 >>

\* s with the bytes from position at (1-based) on overwritten by w
Overwrite(s, at, w) ==
  [i \in 1..Len(s) |-> IF i >= at /\ i < at + Len(w) THEN w[i - at + 1] ELSE s[i]]

(***************************************************************************)
(* The key variants (AesEcbEnum) and the cipher (AesEcbCipher).            *)
(***************************************************************************)
Key128 == [i \in 1..16 |-> (7 * i + 3) % 256]
Key256 == [i \in 1..32 |-> (11 * i + 5) % 256]

new_128(finger) == [cipher |-> "AES128ECB", finger |-> finger]
new_256(finger) == [cipher |-> "AES256ECB", finger |-> finger]

key(c) == IF c.cipher = "AES128ECB" THEN Key128 ELSE Key256

(***************************************************************************)
(* The block cipher.  AES is modelled by a keyed bijection on 16-byte      *)
(* blocks: a running sum of plaintext and round-key bytes, reversed.       *)
(* ECB applies it to each block on its own.                                *)
(***************************************************************************)
RoundKey(k, i) == IF Len(k) = 16 THEN k[i] ELSE (k[i] + 3 * k[i + 16]) % 256

encrypt_block(k, b) ==
  LET s[i \in 0..BLOCK] ==
        IF i = 0 THEN 0 ELSE (s[i - 1] + b[i] + RoundKey(k, i)) % 256
  IN  [i \in 1..BLOCK |-> s[BLOCK + 1 - i]]

decrypt_block(k, c) ==
  LET r(i) == IF i = 0 THEN 0 ELSE c[BLOCK + 1 - i]
  IN  [i \in 1..BLOCK |-> (r(i) - r(i - 1) - RoundKey(k, i) + 512) % 256]

encrypt_blocks(k, data) ==
  [i \in 1..Len(data) |->
     encrypt_block(k, SubSeq(data, ((i - 1) \div BLOCK) * BLOCK + 1,
                                   ((i - 1) \div BLOCK) * BLOCK + BLOCK))
       [((i - 1) % BLOCK) + 1]]

decrypt_blocks(k, data) ==
  [i \in 1..Len(data) |->
     decrypt_block(k, SubSeq(data, ((i - 1) \div BLOCK) * BLOCK + 1,
                                   ((i - 1) \div BLOCK) * BLOCK + BLOCK))
       [((i - 1) % BLOCK) + 1]]

\* Pkcs7: the number of padding bytes added to a message of msg_len bytes
Pkcs7PadLen(msg_len) == BLOCK - (msg_len % BLOCK)

\* Pkcs7::pad
Pkcs7Pad(msg) ==
  msg \o [i \in 1..Pkcs7PadLen(Len(msg)) |-> Pkcs7PadLen(Len(msg))]

\* Pkcs7::unpad of the last block: the padding length, or 0 when invalid
Pkcs7Unpad(data) ==
  LET n == data[Len(data)]
  IN  IF n = 0 \/ n > BLOCK THEN 0
      ELSE IF \A i \in (Len(data) - n + 1)..Len(data) : data[i] = n THEN n
      ELSE 0

\* encrypt_padded_mut::<Pkcs7>(buf, msg_len): pads buf[..msg_len] and
\* encrypts it in place; PadError when buf has no room for the padding.
encrypt_padded_mut(k, buf, msg_len) ==
  LET m == msg_len + Pkcs7PadLen(msg_len)
  IN  IF msg_len > Len(buf) \/ m > Len(buf)
      THEN [ok |-> FALSE, buf |-> buf, len |-> 0]
      ELSE [ok  |-> TRUE,
            buf |-> Overwrite(buf, 1,
                      encrypt_blocks(k, Pkcs7Pad(SubSeq(buf, 1, msg_len)))),
            len |-> m]

\* decrypt_padded_mut::<Pkcs7>(buf): UnpadError when buf is not a whole
\* number of blocks (nothing written), otherwise decrypts every block in
\* place and then strips the padding, UnpadError when it is invalid.
decrypt_padded_mut(k, buf) ==
  IF Len(buf) % BLOCK # 0 \/ Len(buf) = 0
  THEN [ok |-> FALSE, buf |-> buf, len |-> 0]
  ELSE LET plain == decrypt_blocks(k, buf)
           n     == Pkcs7Unpad(plain)
       IN  IF n = 0 THEN [ok |-> FALSE, buf |-> plain, len |-> 0]
           ELSE [ok |-> TRUE, buf |-> plain, len |-> Len(buf) - n]

(***************************************************************************)
(* Finger: the keyed fingerprint.  calculate_finger hashes the 12 context  *)
(* bytes, the body and the token and keeps 12 bytes.  The hash is modelled *)
(* by twelve keyed checksums with odd position weights, so that a change   *)
(* of any single input byte changes every output byte.                     *)
(***************************************************************************)
Token == [j \in 1..16 |-> (29 * j + 17) % 256]

\* Finger.hash: the token's own hash, of which the cipher copies 4 bytes
FingerHash == [j \in 1..16 |-> (Token[j] * 5 + 1) % 256]

Weight(j, i) == 2 * ((j * (i + 1) + i * i) % 128) + 1

calculate_finger(nonce, secret_body) ==
  LET x == nonce \o secret_body
      acc[j \in 1..FINGER_LEN, i \in 0..Len(x)] ==
        IF i = 0 THEN Token[j] ELSE (acc[j, i - 1] + Weight(j, i) * x[i]) % 256
  IN  [j \in 1..FINGER_LEN |-> acc[j, Len(x)]]

(***************************************************************************)
(* NetPacket: the accessors the cipher uses.                               *)
(***************************************************************************)
capacity(p) == HEAD_LEN + Len(p.buffer)

is_encrypt(p) == p.encrypt

set_encrypt_flag(p, flag) == [p EXCEPT !.encrypt = flag]

data_len(p) == p.data_len

payload(p) == SubSeq(p.buffer, 1, p.data_len - HEAD_LEN)

\* the packet after its payload slice has been written through payload_mut
payload_mut(p, bytes) == [p EXCEPT !.buffer = Overwrite(p.buffer, 1, bytes)]

\* set_data_len: fails when the length exceeds the buffer
set_data_len(p, len) ==
  IF len > capacity(p) THEN [ok |-> FALSE, pkt |-> p]
  ELSE [ok |-> TRUE, pkt |-> [p EXCEPT !.data_len = len]]

set_data_len_max(p) == [p EXCEPT !.data_len = capacity(p)]

(***************************************************************************)
(* AesCbcSecretBody: the view [encryption region][12-byte finger] over a   *)
(* payload slice `data`; exist_finger tells whether the finger is there.   *)
(***************************************************************************)
en_body_len(data, exist_finger) ==
  IF exist_finger THEN Len(data) - FINGER_LEN ELSE Len(data)

\* AesCbcSecretBody::new succeeds
secret_body_ok(data, exist_finger) ==
  /\ exist_finger => Len(data) >= FINGER_LEN
  /\ en_body_len(data, exist_finger) > 0

en_body(data, exist_finger) == SubSeq(data, 1, en_body_len(data, exist_finger))

\* the slice after en_body_mut has been overwritten with bytes
en_body_mut(data, exist_finger, bytes) == Overwrite(data, 1, bytes)

finger(data) == SubSeq(data, Len(data) - FINGER_LEN + 1, Len(data))

set_finger(data, f) == Overwrite(data, Len(data) - FINGER_LEN + 1, f)

\* set_random: the last 4 bytes of the encryption region
set_random(data, exist_finger, random) ==
  Overwrite(data, en_body_len(data, exist_finger) - RANDOM_LEN + 1,
            to_be_bytes(random))

(***************************************************************************)
(* The context vector built at the head of both operations.                *)
(***************************************************************************)
\* a context vector that leaves the source TTL out
context_without_ttl(c, p) ==
  p.source \o p.destination
    \o << p.protocol, p.transport_protocol,
          IF p.is_gateway THEN 1 ELSE 0, 0 >>
    \o (IF c.finger THEN SubSeq(FingerHash, 1, 4) ELSE <<0, 0, 0, 0>>)

context(c, p) ==
  p.source \o p.destination
    \o << p.protocol, p.transport_protocol,
          IF p.is_gateway THEN 1 ELSE 0, p.source_ttl >>
    \o (IF c.finger THEN SubSeq(FingerHash, 1, 4) ELSE <<0, 0, 0, 0>>)

\* what one call returns: the packet as the call leaves it, the call's
\* result and the cryptographic primitives it ran, in order
Return(p, res, log) == [pkt |-> p, res |-> res, ops |-> log]

(***************************************************************************)
(* AesEcbCipher::decrypt_ipv4                                              *)
(***************************************************************************)
\* a decrypt_finish that keeps the random number in the payload
decrypt_finish_keeps_random(p, rs, log) ==
  IF rs.ok
  THEN LET r == set_data_len(set_encrypt_flag(p, FALSE), HEAD_LEN + rs.len)
       IN  IF r.ok THEN Return(r.pkt, "ok", log)
           ELSE Return(set_encrypt_flag(p, FALSE), "length overflow", log)
  ELSE Return(p, "decrypt fail", log)

\* the match on the block cipher's result
decrypt_finish(p, rs, log) ==
  IF rs.ok
  THEN LET len == rs.len
           p1  == set_encrypt_flag(p, FALSE)
           r   == set_data_len(p1, HEAD_LEN + len - RANDOM_LEN)
       IN  IF r.ok THEN Return(r.pkt, "ok", log)
           ELSE Return(p1, "length overflow", log)
  ELSE Return(p, "decrypt fail", log)

\* the block-cipher step over the encryption region, in place
decrypt_body(c, p, log) ==
  LET data == payload(p)
      rs   == decrypt_padded_mut(key(c), en_body(data, c.finger))
      p1   == payload_mut(p, en_body_mut(data, c.finger, rs.buf))
  IN  decrypt_finish(p1, rs, log \o <<"decrypt_padded_mut">>)

\* the fingerprint comparison
finger_matches(c, iv, data) ==
  calculate_finger(SubSeq(iv, 1, 12), en_body(data, c.finger)) = finger(data)

\* a decrypt_checked that runs the block cipher first and compares the
\* fingerprint afterwards
decrypt_checked_unverified(c, p) ==
  LET iv   == context(c, p)
      data == payload(p)
  IN  IF ~secret_body_ok(data, c.finger)
      THEN Return(p, "length overflow", <<>>)
      ELSE IF c.finger
      THEN LET r == decrypt_body(c, p, <<>>)
           IN  IF ~finger_matches(c, iv, data)
               THEN Return(r.pkt, "finger err", r.ops \o <<"calculate_finger">>)
               ELSE Return(r.pkt, r.res, r.ops \o <<"calculate_finger">>)
      ELSE decrypt_body(c, p, <<>>)

\* decrypt_ipv4 from the context vector on: the secret body view, the
\* fingerprint check, the block cipher
decrypt_checked(c, p) ==
  LET iv   == context(c, p)
      data == payload(p)
  IN  IF ~secret_body_ok(data, c.finger)
      THEN Return(p, "length overflow", <<>>)
      ELSE IF c.finger
      THEN IF ~finger_matches(c, iv, data)
           THEN Return(p, "finger err", <<"calculate_finger">>)
           ELSE decrypt_body(c, p, <<"calculate_finger">>)
      ELSE decrypt_body(c, p, <<>>)

\* a decrypt_ipv4 that does not look at the encrypted flag
decrypt_ipv4_unflagged(c, p) ==
  IF Len(payload(p)) < 16 THEN Return(p, "data err", <<>>)
  ELSE decrypt_checked(c, p)

\* a decrypt_ipv4 whose minimum length is the tag's and not the block's
decrypt_ipv4_short(c, p) ==
  IF ~is_encrypt(p) THEN Return(p, "not encrypt", <<>>)
  ELSE IF Len(payload(p)) < 12 THEN Return(p, "data err", <<>>)
  ELSE decrypt_checked(c, p)

decrypt_ipv4(c, p) ==
  IF ~is_encrypt(p) THEN Return(p, "not encrypt", <<>>)
  ELSE IF Len(payload(p)) < 16 THEN Return(p, "data err", <<>>)
  ELSE decrypt_checked(c, p)

(***************************************************************************)
(* AesEcbCipher::encrypt_ipv4                                              *)
(***************************************************************************)
\* an encrypt_finish that leaves the tag out of the declared length
encrypt_finish_without_finger_len(c, p, iv, rs, log) ==
  IF rs.ok
  THEN LET r == set_data_len(p, HEAD_LEN + rs.len)
       IN  IF ~r.ok THEN Return(p, "length overflow", log)
           ELSE IF c.finger
           THEN Return(set_encrypt_flag(
                         payload_mut(r.pkt,
                           set_finger(payload(r.pkt),
                             calculate_finger(SubSeq(iv, 1, 12),
                                              SubSeq(rs.buf, 1, rs.len)))),
                         TRUE), "ok", log \o <<"calculate_finger">>)
           ELSE Return(set_encrypt_flag(r.pkt, TRUE), "ok", log)
  ELSE Return(p, "encrypt fail", log)

\* the match on the block cipher's result
encrypt_finish(c, p, iv, rs, log) ==
  IF rs.ok
  THEN LET len == rs.len
       IN  IF c.finger
           THEN LET f == calculate_finger(SubSeq(iv, 1, 12),
                                          SubSeq(rs.buf, 1, len))
                    r == set_data_len(p, HEAD_LEN + len + Len(f))
                    lg == log \o <<"calculate_finger">>
                IN  IF ~r.ok THEN Return(p, "length overflow", lg)
                    ELSE IF ~secret_body_ok(payload(r.pkt), TRUE)
                    THEN Return(r.pkt, "length overflow", lg)
                    ELSE Return(set_encrypt_flag(
                                  payload_mut(r.pkt, set_finger(payload(r.pkt), f)),
                                  TRUE), "ok", lg)
           ELSE LET r == set_data_len(p, HEAD_LEN + len)
                IN  IF ~r.ok THEN Return(p, "length overflow", log)
                    ELSE Return(set_encrypt_flag(r.pkt, TRUE), "ok", log)
  ELSE Return(p, "encrypt fail", log)

\* an encrypt_body that never writes the random number drawn
encrypt_body_fixed_random(c, p, iv, random) ==
  IF ~secret_body_ok(payload(p), c.finger)
  THEN Return(p, "length overflow", <<>>)
  ELSE IF en_body_len(payload(p), c.finger) < RANDOM_LEN
  THEN Return(p, "panic", <<>>)
  ELSE LET data  == set_random(payload(p), c.finger, 0)
           p_len == en_body_len(data, c.finger)
           p1    == set_data_len_max(payload_mut(p, data))
           rs    == encrypt_padded_mut(key(c), payload(p1), p_len)
           p2    == payload_mut(p1, rs.buf)
       IN  encrypt_finish(c, p2, iv, rs, <<"encrypt_padded_mut">>)

\* the secret body view, the random number and the block cipher
encrypt_body(c, p, iv, random) ==
  IF ~secret_body_ok(payload(p), c.finger)
  THEN Return(p, "length overflow", <<>>)
  ELSE IF en_body_len(payload(p), c.finger) < RANDOM_LEN
  THEN Return(p, "panic", <<>>)
  ELSE LET data  == set_random(payload(p), c.finger, random)
           p_len == en_body_len(data, c.finger)
           p1    == set_data_len_max(payload_mut(p, data))
           rs    == encrypt_padded_mut(key(c), payload(p1), p_len)
           p2    == payload_mut(p1, rs.buf)
       IN  encrypt_finish(c, p2, iv, rs, <<"encrypt_padded_mut">>)

encrypt_ipv4(c, p, random) ==
  LET len0 == data_len(p)
      iv   == context(c, p)
      r0   == set_data_len(p, len0 + (IF c.finger THEN 16 ELSE 4))
  IN  IF ~r0.ok THEN Return(p, "length overflow", <<>>)
      ELSE encrypt_body(c, r0.pkt, iv, random)

(***************************************************************************)
(* The inputs: ciphers, packets to send and packets received off the wire. *)
(***************************************************************************)
Ciphers == {new_128(TRUE), new_128(FALSE), new_256(TRUE), new_256(FALSE)}

\* random numbers drawn by rand::thread_rng().next_u32()
Randoms == {0, 16909060}

Seeds == {0, 1}

Header(seed) ==
  IF seed = 0
  THEN [source |-> <<10, 0, 0, 1>>, destination |-> <<10, 0, 0, 2>>,
        protocol |-> 6, transport_protocol |-> 1, is_gateway |-> FALSE,
        source_ttl |-> 64]
  ELSE [source |-> <<192, 168, 255, 7>>, destination |-> <<10, 26, 0, 255>>,
        protocol |-> 4, transport_protocol |-> 17, is_gateway |-> TRUE,
        source_ttl |-> 5]

Bytes(seed, n) == [i \in 1..n |-> (seed * 83 + i * 37 + 1) % 256]

\* a packet with the given header, flag and payload in a buffer that has
\* `reserve` spare bytes behind the payload
Packet(seed, flag, body, reserve) ==
  LET h == Header(seed)
  IN  [source |-> h.source, destination |-> h.destination,
       protocol |-> h.protocol, transport_protocol |-> h.transport_protocol,
       is_gateway |-> h.is_gateway, source_ttl |-> h.source_ttl,
       encrypt |-> flag, data_len |-> HEAD_LEN + Len(body),
       buffer |-> body \o [i \in 1..reserve |-> seed]]

\* the spare bytes encrypt_ipv4 needs behind a payload of n bytes
Needed(c, n) ==
  (n + 4) + (BLOCK - ((n + 4) % BLOCK)) - n + (IF c.finger THEN 12 ELSE 0)

\* packets handed to encrypt_ipv4: every length, with no spare room, one
\* byte too little, exactly enough and one byte more
SendPackets(c, lens) ==
  UNION { { Packet(seed, FALSE, Bytes(seed, n), reserve) :
              reserve \in {0, Needed(c, n) - 1, Needed(c, n), Needed(c, n) + 1} } :
          seed \in Seeds, n \in lens }

\* bodies found in received packets: well-formed ciphertexts of short
\* plaintexts, and arbitrary bytes of several lengths
WireBodies(c) ==
  { encrypt_blocks(key(c), Pkcs7Pad(Bytes(3, n))) : n \in 0..5 }
    \cup { Bytes(5, n) : n \in {0, 3, 4, 15, 16, 20} }

\* packets handed to decrypt_ipv4 by the receive path: a body followed,
\* when fingerprints are in use, by its fingerprint or by a wrong one
RecvPackets(c) ==
  LET h == SubSeq(context(c, Packet(0, TRUE, <<>>, 0)), 1, 12)
  IN  IF c.finger
      THEN { Packet(0, TRUE, ct \o calculate_finger(h, ct), 0) :
               ct \in WireBodies(c) }
           \cup { Packet(0, TRUE, ct \o Bytes(7, FINGER_LEN), 0) :
               ct \in WireBodies(c) }
      ELSE { Packet(0, TRUE, ct, 0) : ct \in WireBodies(c) }

(***************************************************************************)
(* The state machine.  pkts maps each packet buffer to its contents, orig  *)
(* to its contents at the start, prev to its contents before the last      *)
(* call made on it; hist lists the calls made on it, ops the primitives    *)
(* its last call ran.                                                      *)
(***************************************************************************)
Ids == DOMAIN pkts

Call(op, random, res) == [op |-> op, random |-> random, res |-> res]

Start(c, ps) ==
  /\ cipher = c
  /\ pkts = ps
  /\ orig = ps
  /\ prev = ps
  /\ hist = [p \in DOMAIN ps |-> <<>>]
  /\ ops = [p \in DOMAIN ps |-> <<>>]

Record(p, r, call) ==
  /\ pkts' = [pkts EXCEPT ![p] = r.pkt]
  /\ prev' = [prev EXCEPT ![p] = pkts[p]]
  /\ hist' = [hist EXCEPT ![p] = Append(@, call)]
  /\ ops' = [ops EXCEPT ![p] = r.ops]
  /\ UNCHANGED <<cipher, orig>>

\* a call of encrypt_ipv4 on packet p that draws the given random number
EncryptWith(p, random) ==
  LET r == encrypt_ipv4(cipher, pkts[p], random)
  IN  Record(p, r, Call("encrypt", random, r.res))

\* an encrypt_ipv4 that switches the shared cipher to the other key size
EncryptRekey(p) ==
  /\ Len(hist[p]) < MaxOps
  /\ \E random \in Randoms :
       LET r == encrypt_ipv4(cipher, pkts[p], random)
       IN  /\ pkts' = [pkts EXCEPT ![p] = r.pkt]
           /\ prev' = [prev EXCEPT ![p] = pkts[p]]
           /\ hist' = [hist EXCEPT ![p] = Append(@, Call("encrypt", random, r.res))]
           /\ ops' = [ops EXCEPT ![p] = r.ops]
           /\ cipher' = IF cipher.cipher = "AES128ECB"
                        THEN new_256(cipher.finger) ELSE new_128(cipher.finger)
           /\ UNCHANGED orig

\* a call of encrypt_ipv4 on packet p
Encrypt(p) ==
  /\ Len(hist[p]) < MaxOps
  /\ \E random \in Randoms : EncryptWith(p, random)

\* a call of decrypt_ipv4 on packet p
Decrypt(p) ==
  /\ Len(hist[p]) < MaxOps
  /\ LET r == decrypt_ipv4(cipher, pkts[p])
     IN  Record(p, r, Call("decrypt", 0, r.res))

Init ==
  \E c \in Ciphers :
    \E pk \in SendPackets(c, 1..MaxLen) \cup RecvPackets(c) :
      Start(c, <<pk>>)

Next ==
  \/ \E p \in Ids : Encrypt(p)
  \/ \E p \in Ids : Decrypt(p)

Spec == Init /\ [][Next]_vars

(***************************************************************************)
(* A packet crossing a hostile network: encrypted once, then possibly      *)
(* changed in one bit on the wire, then decrypted.                         *)
(***************************************************************************)
Bits == 0..7

\* every packet that differs from pk in one bit of a header field the
\* context vector reads, or in one bit of the payload
OneBitChanges(pk) ==
  { [pk EXCEPT !.source[i] = FlipBit(@, k)] : i \in 1..4, k \in Bits }
    \cup { [pk EXCEPT !.destination[i] = FlipBit(@, k)] : i \in 1..4, k \in Bits }
    \cup { [pk EXCEPT !.protocol = FlipBit(@, k)] : k \in Bits }
    \cup { [pk EXCEPT !.transport_protocol = FlipBit(@, k)] : k \in Bits }
    \cup { [pk EXCEPT !.source_ttl = FlipBit(@, k)] : k \in Bits }
    \cup { [pk EXCEPT !.is_gateway = ~@] }
    \cup { [pk EXCEPT !.buffer[i] = FlipBit(@, k)] :
             i \in 1..Len(payload(pk)), k \in Bits }

Tamper(p) ==
  /\ Len(hist[p]) < MaxOps
  /\ \E q \in OneBitChanges(pkts[p]) :
       Record(p, Return(q, "ok", <<>>), Call("tamper", 0, "ok"))

WireSend(p) == hist[p] = <<>> /\ Encrypt(p)

WireTamper(p) ==
  /\ Len(hist[p]) = 1 /\ hist[p][1].op = "encrypt" /\ hist[p][1].res = "ok"
  /\ Tamper(p)

WireReceive(p) ==
  /\ hist[p] # <<>> /\ hist[p][Len(hist[p])].op # "decrypt"
  /\ Decrypt(p)

InitWire ==
  \E c \in Ciphers :
    \E n \in 1..MaxLen :
      Start(c, <<Packet(0, FALSE, Bytes(0, n), Needed(c, n))>>)

NextWire ==
  \/ \E p \in Ids : WireSend(p)
  \/ \E p \in Ids : WireTamper(p)
  \/ \E p \in Ids : WireReceive(p)

SpecWire == InitWire /\ [][NextWire]_vars

(***************************************************************************)
(* One cipher shared by calls on two packet buffers, in any interleaving:  *)
(* a packet to send and a different packet, to send or received.           *)
(***************************************************************************)
SharedPackets(c) ==
  LET h  == SubSeq(context(c, Packet(0, TRUE, <<>>, 0)), 1, 12)
      ct == encrypt_blocks(key(c), Pkcs7Pad(Bytes(3, 5)))
  IN  { Packet(0, FALSE, Bytes(0, 5), Needed(c, 5)),
        Packet(1, FALSE, Bytes(1, 12), Needed(c, 12) + 1),
        Packet(0, TRUE,
               IF c.finger THEN ct \o calculate_finger(h, ct) ELSE ct, 0) }

SharedEncrypt(p) == Len(hist[p]) < MaxSharedOps /\ Encrypt(p)

SharedDecrypt(p) == Len(hist[p]) < MaxSharedOps /\ Decrypt(p)

InitShared ==
  \E c \in Ciphers :
    \E p1 \in {pk \in SharedPackets(c) : ~pk.encrypt} :
      \E p2 \in SharedPackets(c) \ {p1} : Start(c, <<p1, p2>>)

NextShared ==
  \/ \E p \in Ids : SharedEncrypt(p)
  \/ \E p \in Ids : SharedDecrypt(p)

SpecShared == InitShared /\ [][NextShared]_vars

(***************************************************************************)
(* The same packet encrypted twice: two buffers with equal contents, each  *)
(* encrypted once by the one cipher.                                       *)
(***************************************************************************)
TwinRandoms == {0, 1, 256, 16909060, 2147483647}

TwinEncrypt(p) == hist[p] = <<>> /\ \E random \in TwinRandoms : EncryptWith(p, random)

InitTwin ==
  \E c \in Ciphers :
    \E n \in 1..MaxLen, seed \in Seeds :
      LET pk == Packet(seed, FALSE, Bytes(seed, n), Needed(c, n))
      IN  Start(c, <<pk, pk>>)

NextTwin == \E p \in Ids : TwinEncrypt(p)

SpecTwin == InitTwin /\ [][NextTwin]_vars

(***************************************************************************)
(* Vocabulary of the properties.                                           *)
(***************************************************************************)
Called(p) == hist[p] # <<>>

LastCall(p) == hist[p][Len(hist[p])]

Ran(p, primitive) == \E i \in 1..Len(ops[p]) : ops[p][i] = primitive

\* the ciphertext length the specification gives for n payload bytes
PaddedLen(n) == 16 * (((n + 4) \div 16) + 1)

TagLen == IF cipher.finger THEN 12 ELSE 0

\* the fields and bytes a caller can see are the same in a and b
SameVisible(a, b) ==
  /\ a.source = b.source
  /\ a.destination = b.destination
  /\ a.protocol = b.protocol
  /\ a.transport_protocol = b.transport_protocol
  /\ a.is_gateway = b.is_gateway
  /\ a.source_ttl = b.source_ttl
  /\ a.encrypt = b.encrypt
  /\ a.data_len = b.data_len
  /\ payload(a) = payload(b)

\* the encryption region and the stored tag of a packet, by position
Region(pk) == SubSeq(pk.buffer, 1, pk.data_len - HEAD_LEN - TagLen)

StoredTag(pk) ==
  SubSeq(pk.buffer, pk.data_len - HEAD_LEN - 11, pk.data_len - HEAD_LEN)

\* the fingerprint of a packet's header fields and encryption region
ExpectedTag(pk) ==
  calculate_finger(
    pk.source \o pk.destination
      \o <<pk.protocol, pk.transport_protocol,
           IF pk.is_gateway THEN 1 ELSE 0, pk.source_ttl>>,
    Region(pk))

(***************************************************************************)
(* C1  Round trip.  A plaintext packet of 1..MaxLen payload bytes in a     *)
(* buffer with room for padding, random number and tag, encrypted and then *)
(* decrypted by the same cipher: both calls succeed and the packet shows   *)
(* the original header fields, flag, declared length and payload bytes.    *)
(***************************************************************************)
RoundTripCase(p) ==
  /\ Len(hist[p]) = 2
  /\ hist[p][1].op = "encrypt" /\ hist[p][2].op = "decrypt"
  /\ ~orig[p].encrypt
  /\ Len(payload(orig[p])) >= 1
  /\ capacity(orig[p]) >=
       HEAD_LEN + PaddedLen(Len(payload(orig[p]))) + TagLen

C1_RoundTrip ==
  \A p \in Ids :
    RoundTripCase(p) =>
      /\ hist[p][1].res = "ok"
      /\ hist[p][2].res = "ok"
      /\ SameVisible(pkts[p], orig[p])

C1_Witness ==
  \E p \in Ids :
    /\ RoundTripCase(p)
    /\ cipher.finger
    /\ Len(payload(orig[p])) = 12
    /\ hist[p][2].res = "ok"
    /\ prev[p].encrypt
    /\ pkts[p].buffer # orig[p].buffer

(***************************************************************************)
(* C2  Tamper detection.  With a fingerprint function, a packet produced   *)
(* by a successful encrypt_ipv4 and then changed in any one bit of the     *)
(* ciphertext, the tag or a header field of the context vector is refused  *)
(* by decrypt_ipv4 with "finger err".                                      *)
(***************************************************************************)
TamperCase(p) ==
  /\ cipher.finger
  /\ Len(hist[p]) = 3
  /\ hist[p][1].op = "encrypt" /\ hist[p][1].res = "ok"
  /\ hist[p][2].op = "tamper"
  /\ hist[p][3].op = "decrypt"

C2_TamperDetection ==
  \A p \in Ids : TamperCase(p) => hist[p][3].res = "finger err"

C2_Witness ==
  \E p \in Ids :
    /\ TamperCase(p)
    /\ hist[p][3].res = "finger err"
    /\ prev[p].source_ttl # orig[p].source_ttl

(***************************************************************************)
(* C3  Verify before decrypt.  With a fingerprint function, a decrypt_ipv4 *)
(* call runs the block cipher only after the recomputed fingerprint has    *)
(* been found equal to the stored tag; when they differ the call returns   *)
(* "finger err", the block cipher is not run and the packet is unchanged.  *)
(***************************************************************************)
C3_VerifyBeforeDecrypt ==
  \A p \in Ids :
    (Called(p) /\ LastCall(p).op = "decrypt" /\ cipher.finger) =>
      /\ Ran(p, "decrypt_padded_mut") =>
           /\ ExpectedTag(prev[p]) = StoredTag(prev[p])
           /\ ops[p] = <<"calculate_finger", "decrypt_padded_mut">>
      /\ ( /\ prev[p].encrypt
           /\ Len(payload(prev[p])) >= 16
           /\ ExpectedTag(prev[p]) # StoredTag(prev[p]) ) =>
           /\ LastCall(p).res = "finger err"
           /\ ~Ran(p, "decrypt_padded_mut")
           /\ pkts[p] = prev[p]

C3_Witness ==
  \E p \in Ids :
    /\ Called(p) /\ LastCall(p).op = "decrypt" /\ cipher.finger
    /\ prev[p].encrypt
    /\ Len(payload(prev[p])) = 28
    /\ ExpectedTag(prev[p]) # StoredTag(prev[p])
    /\ LastCall(p).res = "finger err"

(***************************************************************************)
(* C4  State unchanged on decrypt failure.  Whenever decrypt_ipv4 returns  *)
(* an error, the encrypted flag reads as before the call and the bytes of  *)
(* the encryption region are those of before the call.                     *)
(***************************************************************************)
C4_UnchangedOnDecryptFailure ==
  \A p \in Ids :
    (Called(p) /\ LastCall(p).op = "decrypt" /\ LastCall(p).res # "ok") =>
      /\ pkts[p].encrypt = prev[p].encrypt
      /\ payload(pkts[p]) = payload(prev[p])

(***************************************************************************)
(* C5  Encrypt postcondition.  For a packet of n payload bytes whose       *)
(* buffer holds header + M (+ 12 with a fingerprint function) bytes,       *)
(* M = 16 * (floor((n + 4) / 16) + 1), encrypt_ipv4 succeeds, sets the     *)
(* flag and declares header + M (+ 12) bytes; the encryption region is a   *)
(* positive multiple of 16 that exceeds n + 4 by 1..16 and the tag is the  *)
(* last 12 bytes.                                                          *)
(***************************************************************************)
EncryptCase(p) ==
  /\ Called(p) /\ LastCall(p).op = "encrypt"
  /\ prev[p].data_len >= HEAD_LEN
  /\ capacity(prev[p]) >=
       HEAD_LEN + PaddedLen(prev[p].data_len - HEAD_LEN) + TagLen

C5_EncryptPostcondition ==
  \A p \in Ids :
    EncryptCase(p) =>
      LET n == prev[p].data_len - HEAD_LEN
          M == PaddedLen(n)
      IN  /\ LastCall(p).res = "ok"
          /\ pkts[p].encrypt
          /\ pkts[p].data_len = HEAD_LEN + M + TagLen
          /\ Len(Region(pkts[p])) = M
          /\ M % 16 = 0 /\ M >= 16
          /\ M - (n + 4) \in 1..16
          /\ ops[p][1] = "encrypt_padded_mut"
          /\ cipher.finger => StoredTag(pkts[p]) = ExpectedTag(pkts[p])

C5_Witness ==
  \E p \in Ids :
    /\ EncryptCase(p)
    /\ prev[p].data_len - HEAD_LEN = 12
    /\ cipher.finger
    /\ pkts[p].data_len = HEAD_LEN + 32 + 12
    /\ pkts[p].encrypt

(***************************************************************************)
(* C6  Double-decrypt rejection.  decrypt_ipv4 on a packet whose flag is   *)
(* false fails with "not encrypt" and changes nothing; so a decrypt_ipv4   *)
(* that directly follows a successful decrypt_ipv4 fails that way.         *)
(***************************************************************************)
C6_DoubleDecryptRejection ==
  \A p \in Ids :
    /\ (Called(p) /\ LastCall(p).op = "decrypt" /\ ~prev[p].encrypt) =>
         (LastCall(p).res = "not encrypt" /\ pkts[p] = prev[p])
    /\ \A i \in 1..(Len(hist[p]) - 1) :
         ( /\ hist[p][i].op = "decrypt" /\ hist[p][i].res = "ok"
           /\ hist[p][i + 1].op = "decrypt" ) =>
           hist[p][i + 1].res = "not encrypt"

C6_Witness ==
  \E p \in Ids :
    /\ Len(hist[p]) = 3
    /\ hist[p][1].op = "encrypt" /\ hist[p][1].res = "ok"
    /\ hist[p][2].op = "decrypt" /\ hist[p][2].res = "ok"
    /\ hist[p][3].op = "decrypt" /\ hist[p][3].res = "not encrypt"

(***************************************************************************)
(* C7  Minimum-length rejection.  decrypt_ipv4 on a packet flagged         *)
(* encrypted whose payload is under 16 bytes fails with "data err",        *)
(* having run no cryptographic primitive and changed nothing.              *)
(***************************************************************************)
ShortCase(p) ==
  /\ Called(p) /\ LastCall(p).op = "decrypt"
  /\ prev[p].encrypt
  /\ Len(payload(prev[p])) < 16

C7_MinimumLengthRejection ==
  \A p \in Ids :
    ShortCase(p) =>
      /\ LastCall(p).res = "data err"
      /\ ops[p] = <<>>
      /\ pkts[p] = prev[p]

C7_Witness ==
  \E p \in Ids :
    /\ ShortCase(p)
    /\ cipher.finger
    /\ Len(payload(prev[p])) = 15
    /\ LastCall(p).res = "data err"

(***************************************************************************)
(* C8  Non-determinism of ciphertext.  Two encrypt_ipv4 calls of one       *)
(* cipher with a fingerprint function on packets equal in header and       *)
(* payload: when the random numbers drawn differ, the ciphertexts differ   *)
(* and so do the tags; when they are equal the outputs are identical.      *)
(***************************************************************************)
TwinCase ==
  /\ Ids = {1, 2}
  /\ cipher.finger
  /\ orig[1] = orig[2]
  /\ \A p \in Ids :
       Len(hist[p]) = 1 /\ hist[p][1].op = "encrypt" /\ hist[p][1].res = "ok"

C8_NonceDecorrelates ==
  TwinCase =>
    IF hist[1][1].random # hist[2][1].random
    THEN /\ Region(pkts[1]) # Region(pkts[2])
         /\ StoredTag(pkts[1]) # StoredTag(pkts[2])
    ELSE pkts[1] = pkts[2]

C8_Witness ==
  /\ TwinCase
  /\ hist[1][1].random # hist[2][1].random
  /\ Region(pkts[1]) # Region(pkts[2])

(***************************************************************************)
(* C9  Stateless sharing.  In any interleaving of encrypt_ipv4 and         *)
(* decrypt_ipv4 calls through one cipher on distinct buffers, the cipher   *)
(* is never modified and every packet is what its own calls, run alone in  *)
(* their order from its initial contents, make of it.                      *)
(***************************************************************************)
RECURSIVE Alone(_, _, _, _)
\* what the first k calls of history h, run with nothing else, make of pk
Alone(c, pk, h, k) ==
  IF k = 0 THEN Return(pk, "ok", <<>>)
  ELSE LET before == Alone(c, pk, h, k - 1).pkt
       IN  IF h[k].op = "encrypt"
           THEN encrypt_ipv4(c, before, h[k].random)
           ELSE decrypt_ipv4(c, before)

AsAlone ==
  \A p \in Ids :
    LET r == Alone(cipher, orig[p], hist[p], Len(hist[p]))
    IN  /\ pkts[p] = r.pkt
        /\ Called(p) => (LastCall(p).res = r.res /\ ops[p] = r.ops)

C10_PayloadLengthNotNegative ==
  \A p \in Ids :
    (Called(p) /\ LastCall(p).op = "decrypt" /\ LastCall(p).res = "ok") =>
      pkts[p].data_len >= HEAD_LEN

====
